---- MODULE Spec2Model ----
(***************************************************************************)
(* mermaid-editor: the render pipeline (diagram.js renderDiagram), the     *)
(* visibility helper (ensureElementVisible / ensureDiagramVisible) and the *)
(* debounce gate (utils.js debounce).                                      *)
(*                                                                         *)
(* The specifications of the module:                                       *)
(*   Spec      overlapping renderDiagram invocations against the DOM, the  *)
(*             editor and the pan/zoom controller;                         *)
(*   SpecVis   one element put through the visibility helper and its       *)
(*             restore function;                                           *)
(*   SpecDeb   a debounced function driven by calls and a timer            *)
(*             (SpecDebFair adds the event loop's fairness);               *)
(*   SpecErr   one run of the failure handler's line arithmetic;           *)
(*   SpecLoad  page loads: the shared link, the autosave bundle, the text; *)
(*   SpecCloud the save dialog and its Save New / Update buttons;          *)
(*   SpecId    the identifiers passed to mermaid.render;                   *)
(*   SpecFm    the count of the metadata block's lines;                    *)
(*   SpecFile  saveFile with the native picker or the download;            *)
(*   SpecLine  the line marked against the line the engine reported;       *)
(*   SpecMenu  the avatar menu's class and ARIA attributes;                *)
(*   SpecToast showToast and its timers (SpecToastFair adds fairness).     *)
(* Each specification keeps the variables of the others fixed.             *)
(***************************************************************************)
EXTENDS Integers, Sequences, FiniteSets, TLC

VARIABLES
    editor,          \* editor.getValue(): the text, a sequence of lines
    marks,           \* editor.getAllMarks(): the marked line indexes, in order of creation
    diagram,         \* #mermaid-diagram innerHTML
    tempHTML,        \* #mermaid-temp innerHTML
    els,             \* #diagram-pane and #mermaid-temp: inline style and layout
    panZoomInstance, \* the module variable of diagram.js (Null or an instance)
    live,            \* pan/zoom instances created and not yet released by destroy()
    inv,             \* the renderDiagram invocations, by order of request
    started,         \* number of renderDiagram invocations requested so far
    edits,           \* number of changes the user made to the text
    lastDone,        \* the invocation that completed most recently (0: none yet)
    vis,             \* SpecVis: the element, the restore closure and the call history
    deb,             \* SpecDeb: clock, timers and the calls of the debounced function
    err,             \* SpecErr: one run of the failure handler of renderDiagram
    load,            \* SpecLoad: the page's startup and the auto-save of the text
    cloud,           \* SpecCloud: the save dialog's buttons and the cloud calls
    ids,             \* SpecId: the clock and the identifiers handed to mermaid.render
    file,            \* SpecFile: calls of saveFile and what became of the content
    menu,            \* SpecMenu: the avatar button and its menu
    toast            \* SpecToast: the toast element, the clock and the timers of showToast

renderVars == <<editor, marks, diagram, tempHTML, els, panZoomInstance, live, inv, started, edits, lastDone>>
vars == <<editor, marks, diagram, tempHTML, els, panZoomInstance, live, inv, started, edits, lastDone, vis, deb, err, load, cloud, ids, file, menu, toast>>

(***************************************************************************)
(* Bounds                                                                  *)
(***************************************************************************)
MaxRenders == 2

MaxEdits == 2

Invocations == 1..MaxRenders

(***************************************************************************)
(* Text: the editor value is a sequence of lines (split on "\n"). A line   *)
(* is blank ("" or whitespace only), the frontmatter delimiter, or code.   *)
(***************************************************************************)
BlankLines == {"", " "}

IsBlank(l) == l \in BlankLines

RECURSIVE DropLeadingBlank(_)
DropLeadingBlank(t) ==
    IF t = <<>> THEN <<>>
    ELSE IF IsBlank(Head(t)) THEN DropLeadingBlank(Tail(t))
    ELSE t

RECURSIVE DropTrailingBlank(_)
DropTrailingBlank(t) ==
    IF t = <<>> THEN <<>>
    ELSE IF IsBlank(t[Len(t)]) THEN DropTrailingBlank(SubSeq(t, 1, Len(t) - 1))
    ELSE t

\* String.prototype.trim on the whole text: leading and trailing blank lines go.
\* The empty sequence is the empty string.
Trim(t) == DropTrailingBlank(DropLeadingBlank(t))

\* The texts the user types, pastes or loads.
EditorTexts ==
    { <<"">>, <<"a">>, <<" ", "b", "">>, <<"---", "---", "c">> }

\* The markup mermaid.render returns for a source text.
Svg(code) == <<"svg">> \o code

NoMarkup == <<>>


(***************************************************************************)
(* Visibility helper (ensureElementVisible in renderDiagram,               *)
(* ensureDiagramVisible in utils): the same code over one element.         *)
(*                                                                         *)
(* An element is [present, style, cssHidden, stubborn]:                    *)
(*   style      the style attribute: NoAttr when getAttribute gives null   *)
(*   cssHidden  without a forcing inline style the element computes to     *)
(*              display:none / visibility:hidden or measures zero width    *)
(*   stubborn   it measures zero width whatever its own style (an          *)
(*              ancestor is not laid out)                                  *)
(***************************************************************************)
NoAttr == "<no style attribute>"

EmptyAttr == ""

VisibleStyle == "width: 50%"

HiddenStyle == "display: none"

ForcedStyle == "position: fixed !important; ... z-index: -9999 !important;"

StyleAttrs == {NoAttr, EmptyAttr, VisibleStyle, HiddenStyle, ForcedStyle}

\* computedStyle.display === 'none' || visibility === 'hidden' || offsetWidth === 0
IsHidden(el) ==
    \/ el.stubborn
    \/ el.style = HiddenStyle
    \/ el.style # ForcedStyle /\ el.cssHidden

\* () => {}
NoopRestore == [noop |-> TRUE, original |-> EmptyAttr]

\* element.getAttribute('style') || ''
OriginalStyle(el) == IF el.style = NoAttr THEN EmptyAttr ELSE el.style

\* The element after the helper ran on it.
ForceVisible(el) ==
    IF ~el.present \/ ~IsHidden(el) THEN el
    ELSE [el EXCEPT !.style = ForcedStyle]

\* The restore function the helper returns (the closure and what it captured).
RestoreFnOf(el) ==
    IF ~el.present \/ ~IsHidden(el) THEN NoopRestore
    ELSE [noop |-> FALSE, original |-> OriginalStyle(el)]

\* A restore that swaps the forced block and the captured style back and forth.
CallRestoreToggling(el, fn) ==
    IF fn.noop THEN el
    ELSE IF el.style = ForcedStyle
         THEN [el EXCEPT !.style = IF fn.original # EmptyAttr THEN fn.original ELSE NoAttr]
         ELSE [el EXCEPT !.style = ForcedStyle]

\* Calling a restore function: the element afterwards.
CallRestore(el, fn) ==
    IF fn.noop THEN el
    ELSE IF fn.original # EmptyAttr
         THEN [el EXCEPT !.style = fn.original]
         ELSE [el EXCEPT !.style = NoAttr]

(***************************************************************************)
(* Error values the engine (or the pan/zoom library) rejects with, and the *)
(* failure handler's line arithmetic. An optional number is <<>> when      *)
(* undefined and <<n>> when defined.                                       *)
(***************************************************************************)
ErrorValue(nullish, msgLine, hashLine, locLine) ==
    [nullish |-> nullish, msgLine |-> msgLine, hashLine |-> hashLine, locLine |-> locLine]

\* An Error whose message names no line (what svgPanZoom / getZoom throw).
PlainError == ErrorValue(FALSE, <<>>, <<>>, <<>>)

\* The values mermaid.parse / mermaid.render reject with.
EngineErrors ==
    { PlainError,
      ErrorValue(TRUE, <<>>, <<>>, <<>>),      \* null / undefined
      ErrorValue(FALSE, <<1>>, <<>>, <<>>),    \* "Parse error on line 1"
      ErrorValue(FALSE, <<1>>, <<>>, <<2>>) }  \* ... with hash.loc.first_line = 2

\* lines[i] && lines[i].trim() === '---'
IsDelimiter(l) == l \in {"---", "--- "}

RECURSIVE FrontmatterScan(_, _, _)
FrontmatterScan(lines, i, n) ==
    IF i > Len(lines) THEN n
    ELSE IF IsDelimiter(lines[i]) THEN n + 2
    ELSE FrontmatterScan(lines, i + 1, n + 1)

FrontmatterLines(lines) ==
    IF Len(lines) >= 1 /\ IsDelimiter(lines[1]) THEN FrontmatterScan(lines, 2, 0) ELSE 0

\* The same arithmetic with the first source that is present winning.
ErrorLineFirstWins(e, fm) ==
    IF e.msgLine # <<>> THEN <<e.msgLine[1] - 1 + fm>>
    ELSE IF e.hashLine # <<>> THEN <<e.hashLine[1] - 1 + fm>>
    ELSE IF e.locLine # <<>> THEN <<e.locLine[1] - 1 + fm>>
    ELSE <<>>

\* The same arithmetic without the metadata block's lines.
ErrorLineUnshifted(e, fm) ==
    LET p1 == IF e.msgLine # <<>> THEN <<e.msgLine[1] - 1>> ELSE <<>>
        p2 == IF e.hashLine # <<>> THEN <<e.hashLine[1] - 1>> ELSE p1
    IN  IF e.locLine # <<>> THEN <<e.locLine[1] - 1>> ELSE p2

ErrorLine(e, fm) ==
    LET p1 == IF e.msgLine # <<>> THEN <<e.msgLine[1] - 1 + fm>> ELSE <<>>
        p2 == IF e.hashLine # <<>> THEN <<e.hashLine[1] - 1 + fm>> ELSE p1
    IN  IF e.locLine # <<>> THEN <<e.locLine[1] - 1 + fm>> ELSE p2

\* e.message on null / undefined throws inside the catch block.
HandlerThrows(e) == e.nullish

\* The annotation step clearing the marks only when the line is in range.
MarksAfterCatchKeeping(e, text, mks) ==
    LET errorLine == ErrorLine(e, FrontmatterLines(text))
    IN  IF errorLine # <<>> /\ errorLine[1] >= 0 /\ errorLine[1] < Len(text)
        THEN <<errorLine[1]>>
        ELSE mks

\* The annotation step without the clearing of the marks already there.
MarksAfterCatchAppending(e, text, mks) ==
    LET errorLine == ErrorLine(e, FrontmatterLines(text))
    IN  IF errorLine # <<>> /\ errorLine[1] >= 0 /\ errorLine[1] < Len(text)
        THEN Append(mks, errorLine[1])
        ELSE mks

\* The editor's marks after the failure handler's annotation step.
MarksAfterCatch(e, text, mks) ==
    LET errorLine == ErrorLine(e, FrontmatterLines(text))
    IN  IF errorLine # <<>> /\ errorLine[1] >= 0
        THEN IF errorLine[1] < Len(text) THEN <<errorLine[1]>> ELSE <<>>
        ELSE mks

\* editor.scrollIntoView({ line: errorLine, ch: 0 }, 100): the line, <<>> when not called
ScrollAfterCatch(e, text) ==
    LET errorLine == ErrorLine(e, FrontmatterLines(text))
    IN  IF errorLine # <<>> /\ errorLine[1] >= 0 /\ errorLine[1] < Len(text)
        THEN <<errorLine[1]>>
        ELSE <<>>


(***************************************************************************)
(* renderDiagram. An invocation runs from its request to the first await   *)
(* (RenderStart), from the settling of mermaid.parse to the second await   *)
(* (ParseSettles) and from the settling of mermaid.render to its end       *)
(* (RenderSettles); each of the three runs without interruption, and the   *)
(* steps of different invocations interleave freely.                       *)
(*                                                                         *)
(* A pan/zoom instance is named by the invocation that created it. It is   *)
(* live from its creation until destroy() is called on it, whether or not  *)
(* that call throws (the code ignores the exception).                      *)
(***************************************************************************)
Null == 0

IdleInvocation ==
    [ pc       |-> "idle",      \* idle, parse (awaiting mermaid.parse), render, done
      code     |-> <<>>,        \* mermaidCode: the trimmed text read at the start
      restore  |-> [pane |-> NoopRestore, temp |-> NoopRestore],
      outcome  |-> "none",
      called   |-> {},          \* the restore functions this invocation has called
      afterMark |-> FALSE,      \* called with a mark in the editor and no invocation in flight
      rejected |-> FALSE ]      \* the returned promise rejected (the catch block threw)

\* The combinations of #diagram-pane and #mermaid-temp the page starts from.
ElementConfigs ==
    { [ pane |-> [present |-> TRUE, style |-> VisibleStyle, cssHidden |-> FALSE, stubborn |-> FALSE],
        temp |-> [present |-> TRUE, style |-> HiddenStyle, cssHidden |-> FALSE, stubborn |-> FALSE] ],
      [ pane |-> [present |-> TRUE, style |-> EmptyAttr, cssHidden |-> TRUE, stubborn |-> FALSE],
        temp |-> [present |-> TRUE, style |-> NoAttr, cssHidden |-> FALSE, stubborn |-> TRUE] ] }

\* The previous instance is not destroyed.
ReleaseNothing(pz, lv) == lv

\* if (panZoomInstance) { try { panZoomInstance.destroy(); } catch (e) { } }
ReleaseHeld(pz, lv) == IF pz # Null THEN lv \ {pz} ELSE lv

\* The empty-text path as one that destroys the instance and keeps the variable.
HeldAfterEmptyKept(pz) == pz

\* The empty-text path: the module variable after lines 145-148.
HeldAfterEmpty(pz) == Null

\* Lines 174-201 after the diagram was swapped in, for invocation i:
\* the module variable, the live instances, and whether an exception escaped.
PanZoomInit(i, pz, lv, destroyThrows, init) ==
    LET lv1 == ReleaseHeld(pz, lv)
    IN  CASE init = "ok"         -> [pz |-> i, live |-> lv1 \cup {i}, threw |-> FALSE]
          [] init = "initThrows" -> [pz |-> pz, live |-> lv1, threw |-> TRUE]
          [] init = "zoomThrows" -> [pz |-> i, live |-> lv1 \cup {i}, threw |-> TRUE]

PanZoomOutcomes == {"ok", "initThrows", "zoomThrows"}

\* mermaidDiagram.innerHTML = result.svg
RenderedContainers(dgm, tmp, svg) == [diagram |-> svg, temp |-> tmp]

\* The marks are not cleared on success.
MarksKeptOnSuccess(mks) == mks

\* editor.getAllMarks().forEach(mark => mark.clear()) on success
MarksOnSuccess(mks) == <<>>

\* The catch block empties the visible container instead of the scratch one.
CatchContainersWrongElement(dgm, tmp) == [diagram |-> NoMarkup, temp |-> tmp]

\* "Keep existing diagram on error": mermaidTemp.innerHTML = ''
CatchContainers(dgm, tmp) == [diagram |-> dgm, temp |-> NoMarkup]

\* restoreDiagramPane(); restoreMermaidTemp();
RestoreBoth(e, fns) ==
    [pane |-> CallRestore(e.pane, fns.pane), temp |-> CallRestore(e.temp, fns.temp)]

\* The end of invocation i: what it leaves behind.
Finish(i, outcome, dgm, tmp, mks, pz, lv, restores, rejects) ==
    /\ diagram' = dgm
    /\ tempHTML' = tmp
    /\ marks' = mks
    /\ panZoomInstance' = pz
    /\ live' = lv
    /\ els' = IF restores THEN RestoreBoth(els, inv[i].restore) ELSE els
    /\ inv' = [inv EXCEPT ![i].pc = "done",
                          ![i].outcome = outcome,
                          ![i].restore = IdleInvocation.restore,
                          ![i].called = IF restores THEN {"pane", "temp"} ELSE @,
                          ![i].rejected = rejects]
    /\ lastDone' = i
    /\ UNCHANGED <<editor, started, edits>>

\* The catch block, entered with error value e.
Catch(i, e, outcome, dgm, tmp, mks, pz, lv) ==
    LET c == CatchContainers(dgm, tmp)
    IN  IF HandlerThrows(e)
        THEN Finish(i, outcome, c.diagram, c.temp, mks, pz, lv, FALSE, TRUE)
        ELSE Finish(i, outcome, c.diagram, c.temp,
                    MarksAfterCatch(e, editor, mks), pz, lv, TRUE, FALSE)

\* The empty-text path as one that clears the editor's marks.
MarksClearedOnEmpty(mks) == <<>>

\* The empty-text path (lines 143-150) does not touch the editor's marks.
MarksOnEmpty(mks) == mks

\* renderCallback() is called: lines 91-153, up to the await of mermaid.parse.
RenderStart(i) ==
    /\ i = started + 1
    /\ inv[i].pc = "idle"
    /\ started' = i
    /\ LET mermaidCode == Trim(editor)
           afterMark == marks # <<>> /\ \A j \in 1..started : inv[j].pc = "done"
       IN  IF mermaidCode = <<>>
           THEN /\ diagram' = NoMarkup
                /\ live' = ReleaseHeld(panZoomInstance, live)
                /\ panZoomInstance' = IF panZoomInstance # Null
                                      THEN HeldAfterEmpty(panZoomInstance)
                                      ELSE panZoomInstance
                /\ marks' = MarksOnEmpty(marks)
                /\ inv' = [inv EXCEPT ![i].pc = "done", ![i].outcome = "empty",
                                      ![i].afterMark = afterMark]
                /\ lastDone' = i
                /\ UNCHANGED <<editor, edits, tempHTML, els>>
           ELSE /\ inv' = [inv EXCEPT ![i].pc = "parse", ![i].code = mermaidCode,
                                      ![i].afterMark = afterMark]
                /\ UNCHANGED <<editor, edits, marks, diagram, tempHTML, els, panZoomInstance,
                               live, lastDone>>

\* The validation-failure return as one that also clears the editor's marks.
InvalidReturnsClearingMarks(i) ==
    /\ inv' = [inv EXCEPT ![i].pc = "done", ![i].outcome = "parseFalsy"]
    /\ lastDone' = i
    /\ marks' = <<>>
    /\ UNCHANGED <<editor, edits, diagram, tempHTML, els, panZoomInstance, live, started>>

\* if (!isValid) { return; }
InvalidReturns(i) ==
    /\ inv' = [inv EXCEPT ![i].pc = "done", ![i].outcome = "parseFalsy"]
    /\ lastDone' = i
    /\ UNCHANGED <<editor, edits, marks, diagram, tempHTML, els, panZoomInstance, live,
                   started>>

\* mermaid.parse settles: lines 153-166, up to the await of mermaid.render.
ParseSettles(i) ==
    /\ inv[i].pc = "parse"
    /\ \/ \* truthy: acquire visibility, clear the scratch container, call render
          /\ els' = [pane |-> ForceVisible(els.pane), temp |-> ForceVisible(els.temp)]
          /\ inv' = [inv EXCEPT ![i].pc = "render",
                                ![i].restore = [pane |-> RestoreFnOf(els.pane),
                                                temp |-> RestoreFnOf(els.temp)]]
          /\ tempHTML' = NoMarkup
          /\ UNCHANGED <<editor, edits, marks, diagram, panZoomInstance, live, started, lastDone>>
       \/ \* falsy: return
          InvalidReturns(i)
       \/ \* mermaid.parse rejects
          \E e \in EngineErrors :
              Catch(i, e, "parseThrow", diagram, tempHTML, marks, panZoomInstance, live)

\* mermaid.render settles: lines 166-205, or the catch block.
RenderSettles(i) ==
    /\ inv[i].pc = "render"
    /\ \/ \E destroyThrows \in BOOLEAN, init \in PanZoomOutcomes :
              LET c == RenderedContainers(diagram, tempHTML, Svg(inv[i].code))
                  mks == MarksOnSuccess(marks)
                  p == PanZoomInit(i, panZoomInstance, live, destroyThrows, init)
              IN  IF p.threw
                  THEN Catch(i, PlainError, init, c.diagram, c.temp, mks, p.pz, p.live)
                  ELSE Finish(i, "ok", c.diagram, c.temp, mks, p.pz, p.live, TRUE, FALSE)
       \/ \E e \in EngineErrors :
              Catch(i, e, "renderThrow", diagram, tempHTML, marks, panZoomInstance, live)

\* The user changes the text; a mark on a line that no longer exists goes with it.
EditorChange(t) ==
    /\ t # editor
    /\ edits < MaxEdits
    /\ edits' = edits + 1
    /\ editor' = t
    /\ marks' = SelectSeq(marks, LAMBDA l : l < Len(t))
    /\ UNCHANGED <<diagram, tempHTML, els, panZoomInstance, live, inv, started, lastDone>>

VisIdle == [phase |-> "off"]

DebIdle == [phase |-> "off"]

ErrIdle == [phase |-> "off"]

LoadIdle == [phase |-> "off"]

CloudIdle == [phase |-> "off"]

IdsIdle == [phase |-> "off"]

FileIdle == [phase |-> "off"]

MenuIdle == [phase |-> "off"]

ToastIdle == [phase |-> "off"]

Init ==
    /\ editor \in EditorTexts
    /\ marks = <<>>
    /\ diagram = NoMarkup
    /\ tempHTML = NoMarkup
    /\ els \in ElementConfigs
    /\ panZoomInstance = Null
    /\ live = {}
    /\ inv = [i \in Invocations |-> IdleInvocation]
    /\ started = 0
    /\ edits = 0
    /\ lastDone = 0
    /\ vis = VisIdle
    /\ err = ErrIdle
    /\ load = LoadIdle
    /\ cloud = CloudIdle
    /\ deb = DebIdle
    /\ err = ErrIdle
    /\ load = LoadIdle
    /\ cloud = CloudIdle
    /\ ids = IdsIdle
    /\ file = FileIdle
    /\ menu = MenuIdle
    /\ toast = ToastIdle

Next ==
    \/ \E i \in Invocations : RenderStart(i) /\ UNCHANGED <<vis, deb, err, load, cloud, ids, file, menu, toast>>
    \/ \E i \in Invocations : ParseSettles(i) /\ UNCHANGED <<vis, deb, err, load, cloud, ids, file, menu, toast>>
    \/ \E i \in Invocations : RenderSettles(i) /\ UNCHANGED <<vis, deb, err, load, cloud, ids, file, menu, toast>>
    \/ \E t \in EditorTexts : EditorChange(t) /\ UNCHANGED <<vis, deb, err, load, cloud, ids, file, menu, toast>>

Spec == Init /\ [][Next]_vars


(***************************************************************************)
(* SpecVis: one element, one call of the visibility helper, then calls of  *)
(* the restore function it returned.                                       *)
(***************************************************************************)
MaxRestores == 3

\* document.getElementById gave null
AbsentElement == [present |-> FALSE, style |-> NoAttr, cssHidden |-> FALSE, stubborn |-> FALSE]

ElementStates ==
    {AbsentElement} \cup
    [present : {TRUE}, style : StyleAttrs, cssHidden : BOOLEAN, stubborn : BOOLEAN]

VisHelpers == {"ensureElementVisible", "ensureDiagramVisible"}

InitVis ==
    /\ \E h \in VisHelpers, e \in ElementStates :
           vis = [ phase    |-> "fresh",
                   helper   |-> h,
                   el       |-> e,            \* the element now
                   fn       |-> NoopRestore,  \* the restore function returned
                   before   |-> e,            \* the element before the helper ran
                   once     |-> e,            \* the element after the first restore
                   restores |-> 0 ]           \* calls of the restore function
    /\ editor = <<"">>
    /\ marks = <<>>
    /\ diagram = NoMarkup
    /\ tempHTML = NoMarkup
    /\ els \in {c \in ElementConfigs : c.pane.style = VisibleStyle}
    /\ panZoomInstance = Null
    /\ live = {}
    /\ inv = [i \in Invocations |-> IdleInvocation]
    /\ started = 0
    /\ edits = 0
    /\ lastDone = 0
    /\ deb = DebIdle
    /\ err = ErrIdle
    /\ load = LoadIdle
    /\ cloud = CloudIdle
    /\ ids = IdsIdle
    /\ file = FileIdle
    /\ menu = MenuIdle
    /\ toast = ToastIdle

\* const restore = ensureDiagramVisible() / ensureElementVisible(element)
VisAcquire ==
    /\ vis.phase = "fresh"
    /\ vis' = [vis EXCEPT !.phase = "acquired",
                          !.el = ForceVisible(vis.el),
                          !.fn = RestoreFnOf(vis.el)]

\* restore()
VisRestore ==
    /\ vis.phase \in {"acquired", "restored"}
    /\ vis.restores < MaxRestores
    /\ LET after == CallRestore(vis.el, vis.fn)
       IN  vis' = [vis EXCEPT !.phase = "restored",
                              !.el = after,
                              !.once = IF vis.restores = 0 THEN after ELSE @,
                              !.restores = @ + 1]

NextVis ==
    \/ VisAcquire /\ UNCHANGED <<renderVars, deb, err, load, cloud, ids, file, menu, toast>>
    \/ VisRestore /\ UNCHANGED <<renderVars, deb, err, load, cloud, ids, file, menu, toast>>

SpecVis == InitVis /\ [][NextVis]_vars

(***************************************************************************)
(* SpecDeb: wrapped = debounce(func, DelayMs). Time is a counter; a timer  *)
(* set by setTimeout runs at its time or later, never earlier. func's      *)
(* invocations are recorded by their arguments.                            *)
(***************************************************************************)
DelayMs == 2

MaxCalls == 3

MaxTime == 4

ArgValues == {"x", "y"}

\* The pending timer is not cancelled.
ClearTimeoutMissing(timers, id) == timers

\* clearTimeout(timeoutId)
ClearTimeout(timers, id) == {t \in timers : t.id # id}

\* The delay is dropped: setTimeout(..., 0).
DueTimeNow(now, delay) == now

\* setTimeout(..., delay): when the callback becomes due
DueTime(now, delay) == now + delay

InitDeb ==
    /\ deb = [ phase      |-> "on",
               now        |-> 0,
               timers     |-> {},     \* pending timers: [id, at, args]
               timeoutId  |-> 0,      \* let timeoutId; (no timer has this id)
               nextId     |-> 1,
               calls      |-> 0,      \* calls of wrapped so far
               lastCallAt |-> 0,
               lastArgs   |-> "x",
               gapsOk     |-> TRUE,   \* every gap between consecutive calls was < DelayMs
               invoked    |-> <<>> ]  \* the arguments func was invoked with, in order
    /\ editor = <<"">>
    /\ marks = <<>>
    /\ diagram = NoMarkup
    /\ tempHTML = NoMarkup
    /\ els \in {c \in ElementConfigs : c.pane.style = VisibleStyle}
    /\ panZoomInstance = Null
    /\ live = {}
    /\ inv = [i \in Invocations |-> IdleInvocation]
    /\ started = 0
    /\ edits = 0
    /\ lastDone = 0
    /\ vis = VisIdle
    /\ err = ErrIdle
    /\ load = LoadIdle
    /\ cloud = CloudIdle
    /\ ids = IdsIdle
    /\ file = FileIdle
    /\ menu = MenuIdle
    /\ toast = ToastIdle

\* wrapped(...args)
DebCall(a) ==
    /\ deb.calls < MaxCalls
    /\ deb' = [deb EXCEPT
                 !.timers = ClearTimeout(deb.timers, deb.timeoutId)
                            \cup {[id |-> deb.nextId, at |-> DueTime(deb.now, DelayMs), args |-> a]},
                 !.timeoutId = deb.nextId,
                 !.nextId = @ + 1,
                 !.calls = @ + 1,
                 !.lastCallAt = deb.now,
                 !.lastArgs = a,
                 !.gapsOk = @ /\ (deb.calls = 0 \/ deb.now - deb.lastCallAt < DelayMs)]

\* The timer's callback runs: func.apply(this, args)
DebFire(t) ==
    /\ t \in deb.timers
    /\ t.at <= deb.now
    /\ deb' = [deb EXCEPT !.timers = @ \ {t}, !.invoked = Append(@, t.args)]

\* Time passes. A due timer may run late; past MaxTime the clock only runs up to
\* the time of a timer that is still pending.
DebTick ==
    /\ deb.now < MaxTime \/ \E t \in deb.timers : t.at > deb.now
    /\ deb' = [deb EXCEPT !.now = @ + 1]

NextDeb ==
    \/ \E a \in ArgValues : DebCall(a) /\ UNCHANGED <<renderVars, vis, err, load, cloud, ids, file, menu, toast>>
    \/ \E t \in deb.timers : DebFire(t) /\ UNCHANGED <<renderVars, vis, err, load, cloud, ids, file, menu, toast>>
    \/ DebTick /\ UNCHANGED <<renderVars, vis, err, load, cloud, ids, file, menu, toast>>

SpecDeb == InitDeb /\ [][NextDeb]_vars

\* The event loop runs a due timer, and time goes on.
SpecDebFair ==
    /\ SpecDeb
    /\ WF_vars(\E t \in deb.timers : DebFire(t) /\ UNCHANGED <<renderVars, vis, err, load, cloud, ids, file, menu, toast>>)
    /\ WF_vars(DebTick /\ UNCHANGED <<renderVars, vis, err, load, cloud, ids, file, menu, toast>>)


(***************************************************************************)
(* SpecErr: the failure handler of renderDiagram run once, on one error    *)
(* value and one editor text. An error message is a sequence of            *)
(* characters, and the handler's regular expression is matched against it. *)
(***************************************************************************)
Digits == <<"0", "1", "2", "3", "4", "5", "6", "7", "8", "9">>

DigitChars == {Digits[d] : d \in 1..10}

DigitValue(c) == (CHOOSE d \in 1..10 : Digits[d] = c) - 1

\* [\s:] of the pattern
Separators == {" ", ":"}

\* "line" of the pattern, under the flag i
LineWord == <<{"l", "L"}, {"i", "I"}, {"n", "N"}, {"e", "E"}>>

\* The index after the longest run of characters of set that starts at i.
RECURSIVE RunEnd(_, _, _)
RunEnd(msg, i, set) ==
    IF i <= Len(msg) /\ msg[i] \in set THEN RunEnd(msg, i + 1, set) ELSE i

\* parseInt(digits, 10) of msg[i..j-1]
RECURSIVE ParseInt(_, _, _, _)
ParseInt(msg, i, j, acc) ==
    IF i >= j THEN acc ELSE ParseInt(msg, i + 1, j, acc * 10 + DigitValue(msg[i]))

\* /line[\s:]+(\d+)/i tried at position i: <<>> or <<the number captured>>
MatchAt(msg, i) ==
    IF i + 3 <= Len(msg) /\ \A k \in 1..4 : msg[i + k - 1] \in LineWord[k]
    THEN LET s == RunEnd(msg, i + 4, Separators)
             d == RunEnd(msg, s, DigitChars)
         IN  IF s > i + 4 /\ d > s THEN <<ParseInt(msg, s, d, 0)>> ELSE <<>>
    ELSE <<>>

\* errorMessage.match(...): the leftmost match from position i on
RECURSIVE LineMatch(_, _)
LineMatch(msg, i) ==
    IF i > Len(msg) THEN <<>>
    ELSE IF MatchAt(msg, i) # <<>> THEN MatchAt(msg, i)
    ELSE LineMatch(msg, i + 1)

\* The decimal digits of a line number, as the engine writes it in a message.
RECURSIVE DigitsOf(_)
DigitsOf(n) ==
    IF n < 10 THEN <<Digits[n + 1]>> ELSE DigitsOf(n \div 10) \o <<Digits[(n % 10) + 1]>>

ParseErrorOn ==
    <<"P", "a", "r", "s", "e", " ", "e", "r", "r", "o", "r", " ", "o", "n", " ", "l", "i", "n", "e", " ">>

LexicalErrorOn ==
    <<"L", "e", "x", "i", "c", "a", "l", " ", "e", "r", "r", "o", "r", " ", "o", "n", " ", "L", "i", "n", "e", ":", " ">>

SyntaxError == <<"S", "y", "n", "t", "a", "x", " ", "e", "r", "r", "o", "r">>

ToldLines == {0, 1, 2, 15}

\* e.message, with the line number the message tells (<<>>: none)
ErrMessages ==
    {[chars |-> ParseErrorOn \o DigitsOf(n), told |-> <<n>>] : n \in ToldLines}
    \cup {[chars |-> LexicalErrorOn \o DigitsOf(n) \o <<".">>, told |-> <<n>>] : n \in ToldLines}
    \cup {[chars |-> SyntaxError, told |-> <<>>]}

\* A metadata block of f lines (0: none) and a body of b lines of code.
FrontmatterBlock(f) ==
    IF f = 0 THEN <<>> ELSE <<"---">> \o [k \in 1..(f - 2) |-> "title: t"] \o <<"---">>

Body(b) == [k \in 1..b |-> "c"]

BlockSizes == {0, 2, 3}

BodySizes == {1, 15, 18}

\* One run of the catch block: the text, the error, and the marks before.
InitErr ==
    /\ \E f \in BlockSizes, b \in BodySizes, m \in ErrMessages,
          h \in {<<>>, <<2>>}, l \in {<<>>, <<3>>}, mk \in {<<>>, <<0>>} :
           err = [ phase     |-> "thrown",
                   text      |-> FrontmatterBlock(f) \o Body(b),
                   block     |-> f,
                   told      |-> m.told,
                   message   |-> m.chars,
                   hashLine  |-> h,
                   locLine   |-> l,
                   prior     |-> mk,     \* the marks before the handler ran
                   marks     |-> mk,
                   scrolled  |-> <<>>,   \* the line editor.scrollIntoView was called with
                   errorLine |-> <<>> ]
    /\ editor = <<"">>
    /\ marks = <<>>
    /\ diagram = NoMarkup
    /\ tempHTML = NoMarkup
    /\ els \in {c \in ElementConfigs : c.pane.style = VisibleStyle}
    /\ panZoomInstance = Null
    /\ live = {}
    /\ inv = [i \in Invocations |-> IdleInvocation]
    /\ started = 0
    /\ edits = 0
    /\ lastDone = 0
    /\ vis = VisIdle
    /\ deb = DebIdle
    /\ load = LoadIdle
    /\ cloud = CloudIdle
    /\ ids = IdsIdle
    /\ file = FileIdle
    /\ menu = MenuIdle
    /\ toast = ToastIdle

\* What the handler reads from e: the line its pattern finds in the message,
\* hash.line and hash.loc.first_line.
ErrRead(x) == ErrorValue(FALSE, LineMatch(x.message, 1), x.hashLine, x.locLine)

\* catch (e) { ... }: the line arithmetic and the annotation
ErrHandle ==
    /\ err.phase = "thrown"
    /\ err' = [err EXCEPT !.phase = "handled",
                          !.errorLine = ErrorLine(ErrRead(err), FrontmatterLines(err.text)),
                          !.marks = MarksAfterCatch(ErrRead(err), err.text, err.marks),
                          !.scrolled = ScrollAfterCatch(ErrRead(err), err.text)]

NextErr == ErrHandle /\ UNCHANGED <<renderVars, vis, deb, load, cloud, ids, file, menu, toast>>

SpecErr == InitErr /\ [][NextErr]_vars

(***************************************************************************)
(* SpecLoad: the page's startup (the DOMContentLoaded handler of main.js   *)
(* up to its initial render), the auto-save done by the editor's change    *)
(* handler, the passage of time and page reloads. localStorage outlives a  *)
(* reload; everything else is rebuilt. Times are in scaled milliseconds.   *)
(***************************************************************************)
MaxClock == 6

MaxReloads == 1

\* CONFIG.AUTOSAVE_TTL (one hour), scaled
AutosaveTTL == 2

EmptyText == <<"">>

\* mermaidInput.value, the text the page ships with
DefaultText == <<"graph TD">>

LoadTexts == {EmptyText, <<"a">>, <<"b">>}

\* The code decoded from a shareable link: <<>> when the URL carries none.
Links == {<<>>, <<<<"link">>>>}

\* localStorage.getItem(key): null, a string JSON.parse rejects, JSON that is
\* not a bundle, or the bundle {code, timestamp}
Absent == [kind |-> "absent"]

Malformed == [kind |-> "malformed"]

OtherJson == [kind |-> "other"]

Bundle(code, timestamp) == [kind |-> "bundle", code |-> code, timestamp |-> timestamp]

\* The split sizes Split.js's onDragEnd stored.
StoredSizes == [kind |-> "sizes"]

\* The change handler's write, as a handler that leaves storage alone.
SaveOnChangeSkipped(stored, text, now) == stored

\* editor.on('change'): localStorage.setItem(KEY, JSON.stringify({code, timestamp}))
SaveOnChange(stored, text, now) == Bundle(text, now)

\* savedSizes ? JSON.parse(savedSizes) : DEFAULT_SPLIT_SIZES  (outside any try)
SplitSizesThrow(sizes) == sizes = Malformed

\* parsedData && parsedData.timestamp && parsedData.code
IsUsable(v) == v.kind = "bundle" /\ v.timestamp # 0 /\ v.code # EmptyText

\* Date.now() - parsedData.timestamp < oneHour
IsFresh(v, now) == now - v.timestamp < AutosaveTTL

\* The restore step as one that does not look at loadedFromUrl.
RestoreStepUnguarded(loadedFromUrl, stored, text, now) ==
    IF stored.kind # "bundle" \/ ~IsUsable(stored)
    THEN [editor |-> text, stored |-> stored, set |-> FALSE]
    ELSE IF IsFresh(stored, now)
    THEN [editor |-> stored.code, stored |-> stored, set |-> TRUE]
    ELSE [editor |-> text, stored |-> Absent, set |-> FALSE]

\* if (!loadedFromUrl) { ... }: the editor's text and the stored entry after
\* the step, and whether editor.setValue ran
RestoreStep(loadedFromUrl, stored, text, now) ==
    IF loadedFromUrl \/ stored = Absent
    THEN [editor |-> text, stored |-> stored, set |-> FALSE]
    ELSE IF stored = Malformed             \* JSON.parse throws into catch (e)
    THEN [editor |-> text, stored |-> stored, set |-> FALSE]
    ELSE IF ~IsUsable(stored)
    THEN [editor |-> text, stored |-> stored, set |-> FALSE]
    ELSE IF IsFresh(stored, now)
    THEN [editor |-> stored.code, stored |-> stored, set |-> TRUE]
    ELSE [editor |-> text, stored |-> Absent, set |-> FALSE]

\* The state of a page that has not run its handler yet.
BootPage(now, storage, link, reloads) ==
    [ phase    |-> "boot",
      now      |-> now,
      storage  |-> storage,     \* localStorage: the split sizes and the code entry
      link     |-> link,
      reloads  |-> reloads,
      editor   |-> DefaultText,
      changes  |-> 0,           \* change events of the editor since the page loaded
      pending  |-> FALSE,       \* a debounced render is waiting for its timer
      found    |-> Absent,      \* the code entry in storage when the handler ran
      bootNow  |-> 0,           \* Date.now() when the handler ran
      restored |-> FALSE,       \* editor.setValue(parsedData.code) ran
      removed  |-> FALSE,       \* localStorage.removeItem(KEY) ran
      early    |-> <<>>,        \* the text applyDarkMode's render was called with
      initial  |-> <<>>,        \* the text the initial render was called with
      shown    |-> <<>> ]       \* the text the last debounced render was called with

InitLoad ==
    /\ \E sizes \in {Absent, StoredSizes, Malformed},
          code \in {Absent, Malformed, OtherJson}
                   \cup {Bundle(t, ts) : t \in LoadTexts, ts \in 1..(AutosaveTTL + 1)},
          link \in Links :
           load = BootPage(AutosaveTTL + 2, [split |-> sizes, code |-> code], link, 0)
    /\ editor = <<"">>
    /\ marks = <<>>
    /\ diagram = NoMarkup
    /\ tempHTML = NoMarkup
    /\ els \in {c \in ElementConfigs : c.pane.style = VisibleStyle}
    /\ panZoomInstance = Null
    /\ live = {}
    /\ inv = [i \in Invocations |-> IdleInvocation]
    /\ started = 0
    /\ edits = 0
    /\ lastDone = 0
    /\ vis = VisIdle
    /\ deb = DebIdle
    /\ err = ErrIdle
    /\ cloud = CloudIdle
    /\ ids = IdsIdle
    /\ file = FileIdle
    /\ menu = MenuIdle
    /\ toast = ToastIdle

\* The DOMContentLoaded handler, from its first statement to the call of the
\* initial render. setupUrlCodeLoading puts the link's code in the editor with
\* setValue and reports it; every setValue runs the change handler.
LoadStartup ==
    /\ load.phase = "boot"
    /\ IF SplitSizesThrow(load.storage.split)
       THEN load' = [load EXCEPT !.phase = "crashed",
                                 !.bootNow = load.now,
                                 !.found = load.storage.code]
       ELSE LET loadedFromUrl == load.link # <<>>
                linked   == IF loadedFromUrl THEN load.link[1] ELSE DefaultText
                stored   == IF loadedFromUrl
                            THEN SaveOnChange(load.storage.code, linked, load.now)
                            ELSE load.storage.code
                r        == RestoreStep(loadedFromUrl, stored, linked, load.now)
                saved    == IF r.set THEN SaveOnChange(r.stored, r.editor, load.now)
                            ELSE r.stored
            IN  load' = [load EXCEPT
                           !.phase = "up",
                           !.bootNow = load.now,
                           !.found = load.storage.code,
                           !.editor = r.editor,
                           !.storage.code = saved,
                           !.changes = (IF loadedFromUrl THEN 1 ELSE 0) + (IF r.set THEN 1 ELSE 0),
                           !.pending = loadedFromUrl \/ r.set,
                           !.restored = r.set,
                           !.removed = stored # Absent /\ r.stored = Absent,
                           !.early = <<DefaultText>>,
                           !.initial = <<r.editor>>]

\* The user changes the text: the change handler saves it and calls debouncedRender.
LoadChange(t) ==
    /\ load.phase = "up"
    /\ load.changes < MaxEdits
    /\ t # load.editor
    /\ load' = [load EXCEPT !.editor = t,
                            !.storage.code = SaveOnChange(load.storage.code, t, load.now),
                            !.changes = @ + 1,
                            !.pending = TRUE]

\* The debounce timer runs renderCallback.
LoadDebFire ==
    /\ load.phase = "up"
    /\ load.pending
    /\ load' = [load EXCEPT !.pending = FALSE, !.shown = <<load.editor>>]

\* A scaled millisecond passes.
LoadTick ==
    /\ load.now < MaxClock
    /\ load' = [load EXCEPT !.now = @ + 1]

\* The user reloads the page, or opens it again, with or without a link.
LoadReload(link) ==
    /\ load.phase \in {"up", "crashed"}
    /\ load.reloads < MaxReloads
    /\ load' = BootPage(load.now, load.storage, link, load.reloads + 1)

NextLoad ==
    \/ LoadStartup /\ UNCHANGED <<renderVars, vis, deb, err, cloud, ids, file, menu, toast>>
    \/ \E t \in LoadTexts : LoadChange(t) /\ UNCHANGED <<renderVars, vis, deb, err, cloud, ids, file, menu, toast>>
    \/ LoadDebFire /\ UNCHANGED <<renderVars, vis, deb, err, cloud, ids, file, menu, toast>>
    \/ LoadTick /\ UNCHANGED <<renderVars, vis, deb, err, cloud, ids, file, menu, toast>>
    \/ \E link \in Links : LoadReload(link) /\ UNCHANGED <<renderVars, vis, deb, err, cloud, ids, file, menu, toast>>

SpecLoad == InitLoad /\ [][NextLoad]_vars

(***************************************************************************)
(* SpecCloud: the save dialog of main.js. The "Save New" button and the    *)
(* "Update" button of a listed diagram each start a cloud call and wait    *)
(* for it; the list (and with it the Update buttons) is rebuilt each time  *)
(* the dialog is opened. A cloud call settles with success or rejects with *)
(* an Error that carries a message.                                        *)
(***************************************************************************)
MaxOpens == 2

MaxClicks == 2

\* The number of clicks on the Save New button explored, refused ones included.
MaxPresses == 3

\* diagramTitleInput.value, as characters
Titles == {<<>>, <<" ">>, <<"f">>, <<" ", "f", " ">>}

IdleLabel == [save |-> "Save New", update |-> "Update"]

BusyLabel == [save |-> "Saving...", update |-> "Updating..."]

\* A button nobody has clicked.
\* A button: pending is the number of its click handlers awaiting their cloud call.
FreshButton(kind) ==
    [disabled |-> FALSE, label |-> IdleLabel[kind], pc |-> "idle", pending |-> 0]

\* A handler that leaves its button enabled during the call.
EngagedEnabled(b, kind) ==
    [b EXCEPT !.label = BusyLabel[kind], !.pc = "calling", !.pending = @ + 1]

\* try { btn.disabled = true; btn.textContent = '...ing...'; await ...
Engaged(b, kind) ==
    [b EXCEPT !.disabled = TRUE, !.label = BusyLabel[kind], !.pc = "calling", !.pending = @ + 1]

\* A handler without its finally block.
ReleasedNever(b, kind) == [b EXCEPT !.pc = "idle", !.pending = @ - 1]

\* finally { btn.disabled = false; btn.textContent = 'Save New' / 'Update'; }
Released(b, kind) ==
    [b EXCEPT !.disabled = FALSE, !.label = IdleLabel[kind],
              !.pc = IF b.pending > 1 THEN "calling" ELSE "idle", !.pending = @ - 1]

\* showToast(message, isError)
Toast(kind, isError) == [kind |-> kind, isError |-> isError]

NoToast == Toast("none", FALSE)

\* The title tested as it was typed, without trimming.
TitleMissingUntrimmed(title) == title = <<>>

\* const title = diagramTitleInput.value.trim(); if (!title)
TitleMissing(title) == Trim(title) = <<>>

\* What the two ways a cloud call settles do to the dialog, the title and the toast.
Settled(kind, ok, c) ==
    IF ok
    THEN [ modal |-> FALSE,
           title |-> IF kind = "save" THEN <<>> ELSE c.title,
           toast |-> Toast(IF kind = "save" THEN "saved" ELSE "updated", FALSE) ]
    ELSE [ modal |-> c.modal,
           title |-> c.title,
           toast |-> Toast(IF kind = "save" THEN "saveFailed" ELSE "updateFailed", TRUE) ]

InitCloud ==
    /\ cloud = [ phase  |-> "on",
                 modal  |-> FALSE,        \* saveModal has the class show
                 title  |-> <<>>,
                 opens  |-> 0,            \* clicks on the cloud-save button
                 loads  |-> 0,            \* loadSaveDiagrams calls awaiting the list
                 list   |-> 0,            \* the Update button in the list (0: none)
                 made   |-> 0,            \* Update buttons built so far
                 save   |-> FreshButton("save"),
                 upd    |-> [g \in 1..MaxOpens |-> FreshButton("update")],
                 presses |-> 0,           \* clicks on the Save New button
                 clicks |-> [save |-> 0, update |-> 0],   \* clicks that passed validation
                 calls  |-> [save |-> 0, update |-> 0],   \* cloud calls issued
                 done   |-> [save |-> "none", update |-> "none"],  \* how the last call ended
                 toast  |-> NoToast ]
    /\ editor = <<"">>
    /\ marks = <<>>
    /\ diagram = NoMarkup
    /\ tempHTML = NoMarkup
    /\ els \in {c \in ElementConfigs : c.pane.style = VisibleStyle}
    /\ panZoomInstance = Null
    /\ live = {}
    /\ inv = [i \in Invocations |-> IdleInvocation]
    /\ started = 0
    /\ edits = 0
    /\ lastDone = 0
    /\ vis = VisIdle
    /\ deb = DebIdle
    /\ err = ErrIdle
    /\ load = LoadIdle
    /\ ids = IdsIdle
    /\ file = FileIdle
    /\ menu = MenuIdle
    /\ toast = ToastIdle

\* cloudSaveBtn click: the dialog opens and loadSaveDiagrams starts.
CloudOpen ==
    /\ cloud.opens < MaxOpens
    /\ cloud' = [cloud EXCEPT !.modal = TRUE, !.title = <<>>, !.opens = @ + 1,
                              !.loads = @ + 1, !.list = 0]

\* getUserDiagrams settles: the list is rebuilt, with a new Update button when
\* there is a diagram, with none when there is no diagram or the call failed.
CloudListLoaded(result) ==
    /\ cloud.loads > 0
    /\ IF result = "items"
       THEN cloud' = [cloud EXCEPT !.loads = @ - 1, !.made = @ + 1, !.list = cloud.made + 1]
       ELSE cloud' = [cloud EXCEPT !.loads = @ - 1, !.list = 0]

\* closeSaveModalBtn / cancelSaveBtn click
CloudClose ==
    /\ cloud.modal
    /\ cloud' = [cloud EXCEPT !.modal = FALSE]

\* The user types in the title field.
CloudType(t) ==
    /\ cloud.modal
    /\ t # cloud.title
    /\ cloud' = [cloud EXCEPT !.title = t]

\* confirmSaveBtn click (a disabled button takes no click)
SaveClick ==
    /\ cloud.modal
    /\ ~cloud.save.disabled
    /\ cloud.clicks.save < MaxClicks
    /\ cloud.presses < MaxPresses
    /\ IF TitleMissing(cloud.title)
       THEN cloud' = [cloud EXCEPT !.toast = Toast("needName", TRUE), !.presses = @ + 1]
       ELSE cloud' = [cloud EXCEPT !.save = Engaged(@, "save"),
                                   !.presses = @ + 1,
                                   !.clicks.save = @ + 1,
                                   !.calls.save = @ + 1]

\* firebaseManager.saveDiagram settles: the rest of the try, or the catch, and the finally.
SaveSettles(ok) ==
    /\ cloud.save.pc = "calling"
    /\ LET s == Settled("save", ok, cloud)
       IN  cloud' = [cloud EXCEPT !.save = Released(@, "save"),
                                  !.modal = s.modal, !.title = s.title, !.toast = s.toast,
                                  !.done.save = IF ok THEN "ok" ELSE "failed"]

\* click on the Update button in the list
UpdateClick ==
    /\ cloud.modal
    /\ cloud.list # 0
    /\ ~cloud.upd[cloud.list].disabled
    /\ cloud.clicks.update < MaxClicks
    /\ cloud' = [cloud EXCEPT !.upd[cloud.list] = Engaged(@, "update"),
                              !.clicks.update = @ + 1,
                              !.calls.update = @ + 1]

\* firebaseManager.updateDiagram settles, for the button g that was clicked.
UpdateSettles(g, ok) ==
    /\ cloud.upd[g].pc = "calling"
    /\ LET s == Settled("update", ok, cloud)
       IN  cloud' = [cloud EXCEPT !.upd[g] = Released(@, "update"),
                                  !.modal = s.modal, !.title = s.title, !.toast = s.toast,
                                  !.done.update = IF ok THEN "ok" ELSE "failed"]

NextCloud ==
    \/ CloudOpen /\ UNCHANGED <<renderVars, vis, deb, err, load, ids, file, menu, toast>>
    \/ \E r \in {"items", "empty", "fail"} :
          CloudListLoaded(r) /\ UNCHANGED <<renderVars, vis, deb, err, load, ids, file, menu, toast>>
    \/ CloudClose /\ UNCHANGED <<renderVars, vis, deb, err, load, ids, file, menu, toast>>
    \/ \E t \in Titles : CloudType(t) /\ UNCHANGED <<renderVars, vis, deb, err, load, ids, file, menu, toast>>
    \/ SaveClick /\ UNCHANGED <<renderVars, vis, deb, err, load, ids, file, menu, toast>>
    \/ \E ok \in BOOLEAN : SaveSettles(ok) /\ UNCHANGED <<renderVars, vis, deb, err, load, ids, file, menu, toast>>
    \/ UpdateClick /\ UNCHANGED <<renderVars, vis, deb, err, load, ids, file, menu, toast>>
    \/ \E g \in 1..MaxOpens, ok \in BOOLEAN :
          UpdateSettles(g, ok) /\ UNCHANGED <<renderVars, vis, deb, err, load, ids, file, menu, toast>>

SpecCloud == InitCloud /\ [][NextCloud]_vars

(***************************************************************************)
(* SpecId: the identifier renderDiagram hands to mermaid.render. Several   *)
(* invocations are in flight while the clock (Date.now(), in milliseconds) *)
(* advances; an invocation computes its identifier when its parse has      *)
(* settled with a truthy value.                                            *)
(***************************************************************************)
IdCallers == {1, 2, 3}

\* const uniqueId = 'graphDiv-' + Date.now();
UniqueId(now) == <<"graphDiv-", now>>

InitId ==
    /\ ids = [ phase |-> "on",
               now   |-> 1,
               pc    |-> [c \in IdCallers |-> "idle"],  \* idle, parse, render, done
               id    |-> [c \in IdCallers |-> <<>>],    \* the uniqueId of the invocation
               order |-> <<>> ]                         \* the invocations that called render, in order
    /\ editor = <<"">>
    /\ marks = <<>>
    /\ diagram = NoMarkup
    /\ tempHTML = NoMarkup
    /\ els \in {c \in ElementConfigs : c.pane.style = VisibleStyle}
    /\ panZoomInstance = Null
    /\ live = {}
    /\ inv = [i \in Invocations |-> IdleInvocation]
    /\ started = 0
    /\ edits = 0
    /\ lastDone = 0
    /\ vis = VisIdle
    /\ deb = DebIdle
    /\ err = ErrIdle
    /\ load = LoadIdle
    /\ cloud = CloudIdle
    /\ file = FileIdle
    /\ menu = MenuIdle
    /\ toast = ToastIdle

\* renderCallback(): a non-empty text, up to the await of mermaid.parse
IdCall(c) ==
    /\ ids.pc[c] = "idle"
    /\ \A b \in IdCallers : b < c => ids.pc[b] # "idle"
    /\ ids' = [ids EXCEPT !.pc[c] = "parse"]

\* mermaid.parse settles: falsy or rejected ends the invocation, truthy goes
\* on to compute the identifier and call mermaid.render with it
IdParseSettles(c, valid) ==
    /\ ids.pc[c] = "parse"
    /\ IF valid
       THEN ids' = [ids EXCEPT !.pc[c] = "render",
                               !.id[c] = UniqueId(ids.now),
                               !.order = Append(@, c)]
       ELSE ids' = [ids EXCEPT !.pc[c] = "done"]

\* mermaid.render settles
IdRenderSettles(c) ==
    /\ ids.pc[c] = "render"
    /\ ids' = [ids EXCEPT !.pc[c] = "done"]

\* A millisecond passes.
IdTick ==
    /\ ids.now < MaxTime
    /\ ids' = [ids EXCEPT !.now = @ + 1]

NextId ==
    \/ \E c \in IdCallers : IdCall(c) /\ UNCHANGED <<renderVars, vis, deb, err, load, cloud, file, menu, toast>>
    \/ \E c \in IdCallers, valid \in BOOLEAN :
          IdParseSettles(c, valid) /\ UNCHANGED <<renderVars, vis, deb, err, load, cloud, file, menu, toast>>
    \/ \E c \in IdCallers : IdRenderSettles(c) /\ UNCHANGED <<renderVars, vis, deb, err, load, cloud, file, menu, toast>>
    \/ IdTick /\ UNCHANGED <<renderVars, vis, deb, err, load, cloud, file, menu, toast>>

SpecId == InitId /\ [][NextId]_vars

(***************************************************************************)
(* SpecFm: the failure handler's count of the metadata block's lines, on   *)
(* every short text made of delimiter lines, code lines and empty lines.   *)
(***************************************************************************)
FmLines == {"---", "--- ", "c", ""}

FmTexts == UNION {[1..n -> FmLines] : n \in 1..4}

InitFm ==
    /\ \E t \in FmTexts : err = [phase |-> "text", text |-> t, frontmatterLines |-> 0]
    /\ editor = <<"">>
    /\ marks = <<>>
    /\ diagram = NoMarkup
    /\ tempHTML = NoMarkup
    /\ els \in {c \in ElementConfigs : c.pane.style = VisibleStyle}
    /\ panZoomInstance = Null
    /\ live = {}
    /\ inv = [i \in Invocations |-> IdleInvocation]
    /\ started = 0
    /\ edits = 0
    /\ lastDone = 0
    /\ vis = VisIdle
    /\ deb = DebIdle
    /\ load = LoadIdle
    /\ cloud = CloudIdle
    /\ ids = IdsIdle
    /\ file = FileIdle
    /\ menu = MenuIdle
    /\ toast = ToastIdle

\* const lines = mermaidCode.split('\n'); let frontmatterLines = 0; if (...) { for ... }
FmCount ==
    /\ err.phase = "text"
    /\ err' = [err EXCEPT !.phase = "counted", !.frontmatterLines = FrontmatterLines(err.text)]

NextFm == FmCount /\ UNCHANGED <<renderVars, vis, deb, load, cloud, ids, file, menu, toast>>

SpecFm == InitFm /\ [][NextFm]_vars

(***************************************************************************)
(* saveFile (SpecFile): the native save picker or the synthetic download   *)
(***************************************************************************)

\* The number of calls of saveFile explored.
MaxSaves == 3

\* The contents saveFile is called with.
FileContents == {"mmd", "svg"}

\* The names of the DOMExceptions the File System Access calls reject with:
\* AbortError is the dismissed picker and also the write the browser aborted
\* (its safe-browsing check at createWritable or close); NotAllowedError is a
\* refused permission.
ErrorNames == {"AbortError", "NotAllowedError"}

\* catch (err) { if (err.name === 'AbortError') { return false; } throw err; }
SaveCatch(name) == IF name = "AbortError" THEN "false" ELSE "throws"

\* No call of saveFile is running and nothing was saved.
InitFile ==
    /\ \E p \in BOOLEAN :
          file = [ phase      |-> "on",
                   hasPicker  |-> p,        \* 'showSaveFilePicker' in window
                   pc         |-> "idle",   \* idle, picker, createWritable, write, close, done
                   content    |-> "",
                   calls      |-> 0,
                   result     |-> "none",   \* none, true, false, throws
                   error      |-> "",       \* the name of the error the caller got
                   dismissed  |-> FALSE,    \* the user dismissed the picker
                   pickerDone |-> FALSE,    \* the picker was shown and settled
                   buffered   |-> "",       \* what the writable stream holds
                   disk       |-> "",       \* what the chosen file holds
                   wrote      |-> FALSE,    \* this call committed its content to the file
                   download   |-> "",       \* what the last synthetic download carried
                   downloaded |-> FALSE ]   \* this call started a synthetic download
    /\ editor = <<"">>
    /\ marks = <<>>
    /\ diagram = NoMarkup
    /\ tempHTML = NoMarkup
    /\ els \in {c \in ElementConfigs : c.pane.style = VisibleStyle}
    /\ panZoomInstance = Null
    /\ live = {}
    /\ inv = [i \in Invocations |-> IdleInvocation]
    /\ started = 0
    /\ edits = 0
    /\ lastDone = 0
    /\ vis = VisIdle
    /\ deb = DebIdle
    /\ err = ErrIdle
    /\ load = LoadIdle
    /\ cloud = CloudIdle
    /\ ids = IdsIdle
    /\ menu = MenuIdle
    /\ toast = ToastIdle

\* The catch block: the caller gets false or the error.
SaveFails(name) ==
    [file EXCEPT !.pc = "done", !.result = SaveCatch(name),
                 !.error = IF SaveCatch(name) = "throws" THEN name ELSE ""]

\* saveFile(content, ...): with the picker, up to the await of
\* showSaveFilePicker; without it, the synthetic download and return true.
SaveCall(c) ==
    /\ file.pc \in {"idle", "done"}
    /\ file.calls < MaxSaves
    /\ LET f == [file EXCEPT !.calls = @ + 1, !.content = c, !.result = "none",
                             !.error = "", !.dismissed = FALSE, !.pickerDone = FALSE,
                             !.buffered = "", !.wrote = FALSE, !.downloaded = FALSE]
       IN  IF file.hasPicker
           THEN file' = [f EXCEPT !.pc = "picker"]
           ELSE file' = [f EXCEPT !.pc = "done", !.download = c, !.downloaded = TRUE,
                                  !.result = "true"]

\* showSaveFilePicker settles: the user chose a file, dismissed the picker
\* (AbortError), or the call was refused.
PickerSettles(how) ==
    /\ file.pc = "picker"
    /\ CASE how = "chosen"    -> file' = [file EXCEPT !.pc = "createWritable", !.pickerDone = TRUE]
         [] how = "dismissed" -> file' = [SaveFails("AbortError") EXCEPT !.dismissed = TRUE,
                                                                        !.pickerDone = TRUE]
         [] how = "refused"   -> file' = [SaveFails("NotAllowedError") EXCEPT !.pickerDone = TRUE]

\* handle.createWritable() settles
CreateWritableSettles(ok, name) ==
    /\ file.pc = "createWritable"
    /\ file' = IF ok THEN [file EXCEPT !.pc = "write"] ELSE SaveFails(name)

\* writable.write(content) settles: the stream holds the content
WriteSettles(ok, name) ==
    /\ file.pc = "write"
    /\ file' = IF ok THEN [file EXCEPT !.pc = "close", !.buffered = file.content]
                     ELSE SaveFails(name)

\* writable.close() settles: the content reaches the file; return true
CloseSettles(ok, name) ==
    /\ file.pc = "close"
    /\ file' = IF ok THEN [file EXCEPT !.pc = "done", !.disk = file.buffered,
                                       !.wrote = TRUE, !.result = "true"]
                     ELSE SaveFails(name)

NextFile ==
    \/ \E c \in FileContents : SaveCall(c) /\ UNCHANGED <<renderVars, vis, deb, err, load, cloud, ids, menu, toast>>
    \/ \E how \in {"chosen", "dismissed", "refused"} :
          PickerSettles(how) /\ UNCHANGED <<renderVars, vis, deb, err, load, cloud, ids, menu, toast>>
    \/ \E ok \in BOOLEAN, name \in ErrorNames :
          CreateWritableSettles(ok, name) /\ UNCHANGED <<renderVars, vis, deb, err, load, cloud, ids, menu, toast>>
    \/ \E ok \in BOOLEAN, name \in ErrorNames :
          WriteSettles(ok, name) /\ UNCHANGED <<renderVars, vis, deb, err, load, cloud, ids, menu, toast>>
    \/ \E ok \in BOOLEAN, name \in ErrorNames :
          CloseSettles(ok, name) /\ UNCHANGED <<renderVars, vis, deb, err, load, cloud, ids, menu, toast>>

SpecFile == InitFile /\ [][NextFile]_vars

(***************************************************************************)
(* The line the failure handler marks (SpecLine): the engine gets the      *)
(* trimmed text, the handler reads the editor again when the render failed *)
(***************************************************************************)

\* The most blank lines a text starts with.
MaxLead == 2

\* The lines of code of the texts, each one different from the others.
CodeLines == <<"a", "b", "c">>

\* The line the user types above the text while the render is outstanding.
TypedLine == "n"

\* A text: blank lines, an optional metadata block, lines of code.
LineText(lead, f, b) ==
    [k \in 1..lead |-> ""] \o FrontmatterBlock(f) \o SubSeq(CodeLines, 1, b)

\* The editor's text before renderDiagram is called.
InitLine ==
    /\ \E lead \in 0..MaxLead, f \in {0, 3}, b \in 1..Len(CodeLines) :
          err = [ phase    |-> "start",   \* start, engine, handled
                  text     |-> LineText(lead, f, b),  \* editor.getValue()
                  given    |-> <<>>,      \* the text mermaid.parse / render got
                  reported |-> 0,         \* the line number of the error message
                  typed    |-> FALSE,     \* the user typed during the render
                  marks    |-> <<>> ]
    /\ editor = <<"">>
    /\ marks = <<>>
    /\ diagram = NoMarkup
    /\ tempHTML = NoMarkup
    /\ els \in {c \in ElementConfigs : c.pane.style = VisibleStyle}
    /\ panZoomInstance = Null
    /\ live = {}
    /\ inv = [i \in Invocations |-> IdleInvocation]
    /\ started = 0
    /\ edits = 0
    /\ lastDone = 0
    /\ vis = VisIdle
    /\ deb = DebIdle
    /\ load = LoadIdle
    /\ cloud = CloudIdle
    /\ ids = IdsIdle
    /\ file = FileIdle
    /\ menu = MenuIdle
    /\ toast = ToastIdle

\* const mermaidCode = editor.getValue().trim(); await mermaid.parse(mermaidCode)
LineSubmit ==
    /\ err.phase = "start"
    /\ err' = [err EXCEPT !.phase = "engine", !.given = Trim(err.text)]

\* The user types a line above the text while the engine call is outstanding.
LineTyped ==
    /\ err.phase = "engine"
    /\ ~err.typed
    /\ err' = [err EXCEPT !.typed = TRUE, !.text = <<TypedLine>> \o @]

\* The engine rejects with "Parse error on line n", n a line of the text it
\* was given; the catch block reads the editor again and marks its line.
LineFails(n) ==
    /\ err.phase = "engine"
    /\ n \in 1..Len(err.given)
    /\ err' = [err EXCEPT !.phase = "handled",
                          !.reported = n,
                          !.marks = MarksAfterCatch(ErrorValue(FALSE, <<n>>, <<>>, <<>>),
                                                    err.text, err.marks)]

NextLine ==
    \/ LineSubmit /\ UNCHANGED <<renderVars, vis, deb, load, cloud, ids, file, menu, toast>>
    \/ LineTyped /\ UNCHANGED <<renderVars, vis, deb, load, cloud, ids, file, menu, toast>>
    \/ \E n \in 1..Len(LineText(0, 3, Len(CodeLines))) :
          LineFails(n) /\ UNCHANGED <<renderVars, vis, deb, load, cloud, ids, file, menu, toast>>

SpecLine == InitLine /\ [][NextLine]_vars

(***************************************************************************)
(* The avatar menu (SpecMenu): the toggle, the outside click, Escape and   *)
(* the logout button                                                       *)
(***************************************************************************)

\* The number of user events explored.
MaxEvents == 6

\* setAttribute(name, boolean): the attribute holds the boolean's string.
BoolAttr(b) == IF b THEN "true" ELSE "false"

\* The page as loaded: the menu closed, its attributes in agreement. The
\* logout button is inside the menu or elsewhere on the page.
InitMenu ==
    /\ \E u \in BOOLEAN, inside \in BOOLEAN :
          menu = [ phase    |-> "on",
                   show     |-> FALSE,            \* avatarMenu has the class show
                   expanded |-> BoolAttr(FALSE),  \* aria-expanded of avatarBtn
                   hidden   |-> BoolAttr(TRUE),   \* aria-hidden of avatarMenu
                   user     |-> u,                \* a user is signed in
                   inside   |-> inside,           \* avatarMenu.contains(logoutBtn)
                   pending  |-> 0,                \* logout calls outstanding
                   events   |-> 0 ]
    /\ editor = <<"">>
    /\ marks = <<>>
    /\ diagram = NoMarkup
    /\ tempHTML = NoMarkup
    /\ els \in {c \in ElementConfigs : c.pane.style = VisibleStyle}
    /\ panZoomInstance = Null
    /\ live = {}
    /\ inv = [i \in Invocations |-> IdleInvocation]
    /\ started = 0
    /\ edits = 0
    /\ lastDone = 0
    /\ vis = VisIdle
    /\ deb = DebIdle
    /\ err = ErrIdle
    /\ load = LoadIdle
    /\ cloud = CloudIdle
    /\ ids = IdsIdle
    /\ file = FileIdle
    /\ toast = ToastIdle

\* The document's click handler for a click outside the button and the menu.
MenuClosed(m) ==
    [m EXCEPT !.show = FALSE, !.expanded = "false", !.hidden = "true"]

\* avatarBtn click: toggle the class, then set both attributes from isOpen.
\* The click reaches the document's handler too, which leaves it alone.
MenuToggle ==
    /\ menu.events < MaxEvents
    /\ LET isOpen == menu.show
       IN  menu' = [menu EXCEPT !.show = ~isOpen,
                                !.expanded = BoolAttr(~isOpen),
                                !.hidden = BoolAttr(isOpen),
                                !.events = @ + 1]

\* A click elsewhere on the page.
MenuOutsideClick ==
    /\ menu.events < MaxEvents
    /\ menu' = [MenuClosed(menu) EXCEPT !.events = @ + 1]

\* keydown: Escape closes an open menu, any other state is left alone.
MenuEscape ==
    /\ menu.events < MaxEvents
    /\ menu' = IF menu.show
               THEN [MenuClosed(menu) EXCEPT !.events = @ + 1]
               ELSE [menu EXCEPT !.events = @ + 1]

\* The auth state changes to a signed-in user (updateAuthUI(user)).
MenuLogin ==
    /\ menu.events < MaxEvents
    /\ ~menu.user
    /\ menu' = [menu EXCEPT !.user = TRUE, !.events = @ + 1]

\* logoutBtn click, up to the await of firebaseManager.logout(). A button
\* inside the menu is clicked while the menu shows; a button elsewhere is
\* outside the avatar button and the menu for the document's handler.
LogoutClick ==
    /\ menu.events < MaxEvents
    /\ menu.user
    /\ menu.inside => menu.show
    /\ LET m == IF menu.inside THEN menu ELSE MenuClosed(menu)
       IN  menu' = [m EXCEPT !.pending = @ + 1, !.events = @ + 1]

\* firebaseManager.logout() settles: fulfilled, the class goes and aria-hidden
\* is set; rejected, only the notification is shown.
LogoutSettles(ok) ==
    /\ menu.pending > 0
    /\ menu' = IF ok
               THEN [menu EXCEPT !.pending = @ - 1, !.show = FALSE, !.hidden = "true",
                                 !.user = FALSE]
               ELSE [menu EXCEPT !.pending = @ - 1]

NextMenu ==
    \/ MenuToggle /\ UNCHANGED <<renderVars, vis, deb, err, load, cloud, ids, file, toast>>
    \/ MenuOutsideClick /\ UNCHANGED <<renderVars, vis, deb, err, load, cloud, ids, file, toast>>
    \/ MenuEscape /\ UNCHANGED <<renderVars, vis, deb, err, load, cloud, ids, file, toast>>
    \/ MenuLogin /\ UNCHANGED <<renderVars, vis, deb, err, load, cloud, ids, file, toast>>
    \/ LogoutClick /\ UNCHANGED <<renderVars, vis, deb, err, load, cloud, ids, file, toast>>
    \/ \E ok \in BOOLEAN :
          LogoutSettles(ok) /\ UNCHANGED <<renderVars, vis, deb, err, load, cloud, ids, file, toast>>

SpecMenu == InitMenu /\ [][NextMenu]_vars

(***************************************************************************)
(* showToast (SpecToast): the toast element and the timers that hide it    *)
(***************************************************************************)

\* The number of showToast calls explored.
MaxToasts == 3

\* CONFIG.TOAST_DURATION, in ticks of the clock.
ToastDuration == 2

\* The messages showToast is called with.
ToastMessages == {"Logged out successfully!", "Logout failed"}

\* No toast is showing and no timer is pending.
InitToast ==
    /\ toast = [ phase   |-> "on",
                 now     |-> 0,
                 show    |-> FALSE,   \* toast has the class show
                 text    |-> "",      \* toast.textContent
                 timers  |-> {},      \* pending timers: [id, at]
                 nextId  |-> 1,
                 calls   |-> 0,       \* calls of showToast so far
                 shownAt |-> 0 ]      \* the time of the latest call
    /\ editor = <<"">>
    /\ marks = <<>>
    /\ diagram = NoMarkup
    /\ tempHTML = NoMarkup
    /\ els \in {c \in ElementConfigs : c.pane.style = VisibleStyle}
    /\ panZoomInstance = Null
    /\ live = {}
    /\ inv = [i \in Invocations |-> IdleInvocation]
    /\ started = 0
    /\ edits = 0
    /\ lastDone = 0
    /\ vis = VisIdle
    /\ deb = DebIdle
    /\ err = ErrIdle
    /\ load = LoadIdle
    /\ cloud = CloudIdle
    /\ ids = IdsIdle
    /\ file = FileIdle
    /\ menu = MenuIdle

\* showToast(message): the text, the class, and a timer of its own
ToastShow(m) ==
    /\ toast.calls < MaxToasts
    /\ toast' = [toast EXCEPT
                   !.text = m,
                   !.show = TRUE,
                   !.timers = @ \cup {[id |-> toast.nextId,
                                       at |-> DueTime(toast.now, ToastDuration)]},
                   !.nextId = @ + 1,
                   !.calls = @ + 1,
                   !.shownAt = toast.now]

\* A timer's callback runs: toast.classList.remove('show')
ToastHide(t) ==
    /\ t \in toast.timers
    /\ t.at <= toast.now
    /\ toast' = [toast EXCEPT !.timers = @ \ {t}, !.show = FALSE]

\* Time passes. A due timer may run late; past MaxTime the clock only runs up
\* to the time of a timer that is still pending.
ToastTick ==
    /\ toast.now < MaxTime \/ \E t \in toast.timers : t.at > toast.now
    /\ toast' = [toast EXCEPT !.now = @ + 1]

NextToast ==
    \/ \E m \in ToastMessages :
          ToastShow(m) /\ UNCHANGED <<renderVars, vis, deb, err, load, cloud, ids, file, menu>>
    \/ \E t \in toast.timers :
          ToastHide(t) /\ UNCHANGED <<renderVars, vis, deb, err, load, cloud, ids, file, menu>>
    \/ ToastTick /\ UNCHANGED <<renderVars, vis, deb, err, load, cloud, ids, file, menu>>

SpecToast == InitToast /\ [][NextToast]_vars

\* The event loop runs a due timer, and time goes on.
SpecToastFair ==
    /\ SpecToast
    /\ WF_vars(\E t \in toast.timers :
                  ToastHide(t) /\ UNCHANGED <<renderVars, vis, deb, err, load, cloud, ids, file, menu>>)
    /\ WF_vars(ToastTick /\ UNCHANGED <<renderVars, vis, deb, err, load, cloud, ids, file, menu>>)

(***************************************************************************)
(* Properties of the render pipeline (Spec)                                *)
(***************************************************************************)
FailureOutcomes == {"parseFalsy", "parseThrow", "renderThrow"}

\* mermaid.parse gave a truthy result and mermaid.render resolved
EngineSuccessOutcomes == {"ok", "initThrows", "zoomThrows"}

\* the invocation reached lines 159-160
AcquiredOutcomes == EngineSuccessOutcomes \cup {"renderThrow"}

Completes(i) == inv[i].pc # "done" /\ inv'[i].pc = "done"

\* C1: an invocation that fails (parse falsy, parse throws, render throws) never
\* writes #mermaid-diagram: its completing step leaves the container as it was, and
\* so does every step of an invocation that does not complete it.
C1_FailedRenderKeepsDiagram ==
    [][\A i \in Invocations :
          /\ (Completes(i) /\ inv'[i].outcome \in FailureOutcomes) => diagram' = diagram
          /\ (inv'[i] # inv[i] /\ inv'[i].pc # "done") => diagram' = diagram]_vars

\* C1 witness: a render failed while an earlier diagram was on display.
C1_Witness ==
    \E i \in Invocations :
        /\ inv[i].outcome = "renderThrow"
        /\ lastDone = i
        /\ diagram # NoMarkup

AllSettled == started >= 1 /\ \A i \in 1..started : inv[i].pc = "done"

\* What the invocation puts on display when it applies its result.
ResultOf(i) == IF inv[i].outcome = "empty" THEN NoMarkup ELSE Svg(inv[i].code)

\* C3: once all invocations have completed, #mermaid-diagram holds the result of
\* the invocation requested last (when that one produced a result: a diagram or
\* the cleared container), whatever the order in which the engine calls settled.
C3_LatestRequestWins ==
    (AllSettled /\ inv[started].outcome \in EngineSuccessOutcomes \cup {"empty"})
        => diagram = ResultOf(started)

C7_HeldInstanceIsLive ==
    /\ Cardinality(live) <= 1
    /\ panZoomInstance # Null => panZoomInstance \in live

\* C8: every invocation that acquired visibility has called both restore
\* functions when it completes, on every path.
C8_RestoresAlwaysRun ==
    \A i \in Invocations :
        (inv[i].pc = "done" /\ inv[i].outcome \in AcquiredOutcomes)
            => inv[i].called = {"pane", "temp"}

(***************************************************************************)
(* Properties of the visibility helper (SpecVis)                           *)
(***************************************************************************)
\* C9: calling the restore function twice leaves the element as calling it once
\* did, and for an absent element the helper returns a restore function whose
\* call changes nothing.
C9_RestoreIdempotent ==
    /\ vis.restores >= 2 => vis.el = vis.once
    /\ (vis.phase # "fresh" /\ ~vis.before.present) => (vis.fn.noop /\ vis.el = vis.before)

\* C9 witness: a restore function that captured a style has been called twice.
C9_Witness ==
    /\ vis.restores >= 2
    /\ ~vis.fn.noop
    /\ vis.before.style = HiddenStyle
    /\ vis.el.style = HiddenStyle

\* C10: acquiring and then restoring leaves the style attribute exactly as it was
\* before the acquisition, for every element state.
C10_RestoreRoundTrip ==
    vis.restores >= 1 => vis.el.style = vis.before.style

(***************************************************************************)
(* Properties of the debounce gate (SpecDeb, SpecDebFair)                  *)
(***************************************************************************)
\* C4: N >= 1 calls with every gap smaller than DelayMs: func is not invoked
\* while the timer is pending, and once it ran func has been invoked exactly once,
\* with the arguments of the last call.
C4_BurstInvokesOnce ==
    (deb.gapsOk /\ deb.calls >= 1)
        => IF deb.timers # {} THEN deb.invoked = <<>> ELSE deb.invoked = <<deb.lastArgs>>

\* C4 witness: a burst of three calls ended in one invocation.
C4_Witness ==
    /\ deb.gapsOk
    /\ deb.calls = 3
    /\ deb.now > DelayMs
    /\ deb.timers = {}
    /\ deb.invoked = <<deb.lastArgs>>

\* C5: at most one invocation of func is scheduled at any moment; func is never
\* invoked while less than DelayMs has elapsed since the most recent call; and a
\* pending invocation is followed by an invocation of func unless a further call
\* comes first.
C5_Debounce ==
    /\ [](Cardinality(deb.timers) <= 1)
    /\ [][Len(deb'.invoked) > Len(deb.invoked)
            => deb.now - deb.lastCallAt >= DelayMs]_vars
    /\ \A k \in 1..MaxCalls, n \in 0..MaxCalls :
          (deb.calls = k /\ Len(deb.invoked) = n /\ deb.timers # {})
              ~> (deb.calls > k \/ Len(deb.invoked) > n)

\* C5 witness: func has been invoked twice, each time after a quiet DelayMs.
C5_Witness ==
    /\ Len(deb.invoked) = 2
    /\ deb.calls = 3
    /\ deb.timers = {}

(***************************************************************************)
(* Properties of the failure handler's line arithmetic (SpecErr)           *)
(***************************************************************************)

\* C11: when the error carries only a message that says "line N" (no hash),
\* the handler computes the 0-based line N - 1 + (lines of the metadata block)
\* and, when the text has that line, it is the one line marked: "line 15"
\* gives 14 without a block and 17 under a block of 3 lines.
C11_MessageLineAnnotated ==
    (err.phase = "handled" /\ err.told # <<>> /\ err.hashLine = <<>> /\ err.locLine = <<>>)
    => LET line == err.told[1] - 1 + err.block
       IN  /\ err.errorLine = <<line>>
           /\ (line >= 0 /\ line < Len(err.text)) => err.marks = <<line>>
           /\ (err.told = <<15>> /\ err.block = 0) => err.errorLine = <<14>>
           /\ (err.told = <<15>> /\ err.block = 3) => err.errorLine = <<17>>

C11_Witness ==
    /\ err.phase = "handled"
    /\ err.told = <<15>> /\ err.block = 3
    /\ err.hashLine = <<>> /\ err.locLine = <<>>
    /\ err.marks = <<17>>

\* The line the error reports, by the claimed priority: hash.loc.first_line,
\* else hash.line, else the number in the message, else none.
ReportedLine(x) ==
    IF x.locLine # <<>> THEN x.locLine
    ELSE IF x.hashLine # <<>> THEN x.hashLine
    ELSE x.told

\* C22: the error line used for the annotation comes from hash.loc.first_line
\* when it is defined, otherwise from hash.line when it is defined, otherwise
\* from the number the pattern finds in the message, otherwise there is none
\* and nothing is annotated; a message match never wins over a hash field.
C22_LaterSourceWins ==
    err.phase = "handled"
    => IF ReportedLine(err) = <<>>
       THEN err.errorLine = <<>> /\ err.marks = err.prior /\ err.scrolled = <<>>
       ELSE err.errorLine = <<ReportedLine(err)[1] - 1 + err.block>>

C22_Witness ==
    /\ err.phase = "handled"
    /\ err.told = <<15>> /\ err.hashLine = <<2>> /\ err.locLine = <<3>>
    /\ err.block = 3
    /\ err.errorLine = <<5>> /\ err.marks = <<5>>

\* The handler computed a line that the text does not have.
OutOfRange(x) ==
    x.errorLine # <<>> /\ (x.errorLine[1] < 0 \/ x.errorLine[1] >= Len(x.text))

\* C23 as stated: when the mapped line is negative or not less than the line
\* count, no mark is added, the editor is not scrolled and the marks that
\* were there before are left as they were.
C23_AsStated ==
    (err.phase = "handled" /\ OutOfRange(err))
    => err.marks = err.prior /\ err.scrolled = <<>>

\* C23: when the mapped line is negative or not less than the line count, no
\* mark is added and the editor is not scrolled; the marks that were there
\* before are left as they were for a negative line and are all cleared for
\* a line past the end of the text.
C23_OutOfRangeAddsNoMark ==
    (err.phase = "handled" /\ OutOfRange(err))
    => /\ err.scrolled = <<>>
       /\ err.errorLine[1] < 0 => err.marks = err.prior
       /\ err.errorLine[1] >= Len(err.text) => err.marks = <<>>

C23_Witness ==
    /\ err.phase = "handled"
    /\ err.errorLine # <<>> /\ err.errorLine[1] >= Len(err.text)
    /\ err.prior # <<>>
    /\ err.marks = <<>> /\ err.scrolled = <<>>

(***************************************************************************)
(* Properties of startup and auto-save (SpecLoad)                          *)
(***************************************************************************)

\* C12: on a load without link code that finds a bundle {code, timestamp},
\* the bundle's code is restored into the editor exactly when
\* now - timestamp < TTL, and a bundle that is not (aged exactly TTL
\* included) is not restored and its entry is removed.
C12_RestoredIffFresh ==
    (load.phase = "up" /\ load.link = <<>> /\ load.found.kind = "bundle")
    => LET fresh == load.bootNow - load.found.timestamp < AutosaveTTL
       IN  /\ load.restored <=> fresh
           /\ fresh => load.initial = <<load.found.code>>
           /\ ~fresh => load.removed /\ load.initial = <<DefaultText>>

\* C13: once the editor has had a change event, the code in the auto-save
\* bundle is the editor's current text, whether or not the debounced render
\* of that change has run: the persisted copy is never behind the editor.
C13_BundleIsEditorText ==
    (load.phase = "up" /\ load.changes >= 1)
    => /\ load.storage.code.kind = "bundle"
       /\ load.storage.code.code = load.editor

C13_Witness ==
    /\ load.phase = "up" /\ load.changes >= 2
    /\ load.pending
    /\ load.shown # <<>> /\ load.shown # <<load.editor>>
    /\ load.storage.code = Bundle(load.editor, load.now)

\* C14: when the initial code comes from a shareable link, the stored bundle
\* is not restored, whatever its age and content: the initial render is
\* called with the link's code in the editor.
C14_LinkWinsOverBundle ==
    (load.phase = "up" /\ load.link # <<>>)
    => /\ ~load.restored
       /\ load.initial = <<load.link[1]>>

C14_Witness ==
    /\ load.phase = "up" /\ load.link # <<>>
    /\ IsUsable(load.found) /\ IsFresh(load.found, load.bootNow)
    /\ load.found.code # load.link[1]
    /\ load.initial = <<load.link[1]>>

\* C15: a malformed value under a JSON-valued key read at startup (the split
\* sizes, the auto-save bundle) is treated as absence: the handler goes on,
\* the restore step leaves the editor's text alone and the initial render is
\* called.
C15_MalformedIsAbsence ==
    (load.phase # "boot" /\ (load.storage.split = Malformed \/ load.found = Malformed))
    => /\ load.phase = "up"
       /\ ~load.restored
       /\ load.initial = <<IF load.link # <<>> THEN load.link[1] ELSE DefaultText>>

(***************************************************************************)
(* Properties of the early returns and of the error-line mark (Spec)       *)
(***************************************************************************)

\* An invocation is called in this step.
Called(i) == inv[i].pc = "idle" /\ inv'[i].pc # "idle"

\* C16: called on a text that is empty after trimming, renderDiagram empties
\* the visible container, destroys the held pan/zoom instance and sets the
\* variable to null, and returns at once: parse and render are never awaited
\* and no visibility is acquired (no element's style changes, no restore
\* function is taken).
C16_EmptyTextClears ==
    [][\A i \in Invocations :
          (Called(i) /\ Trim(editor) = <<>>)
          => /\ diagram' = NoMarkup
             /\ panZoomInstance' = Null
             /\ panZoomInstance # Null => panZoomInstance \notin live'
             /\ inv'[i].pc = "done" /\ inv'[i].outcome = "empty"
             /\ els' = els
             /\ inv'[i].restore = IdleInvocation.restore /\ inv'[i].called = {}]_vars

C16_Witness ==
    /\ lastDone = 2 /\ inv[2].outcome = "empty"
    /\ inv[1].outcome = "ok"
    /\ Trim(editor) = <<>>
    /\ diagram = NoMarkup /\ panZoomInstance = Null /\ live = {}

\* C17: when mermaid.parse resolves to a falsy value the invocation ends and
\* leaves everything as it was: both containers, the pan/zoom instance, the
\* editor's marks and the elements' inline styles; render is not called and
\* no error line is computed or marked.
C17_InvalidLeavesAllUnchanged ==
    [][\A i \in Invocations :
          (Completes(i) /\ inv'[i].outcome = "parseFalsy")
          => /\ inv[i].pc = "parse"
             /\ UNCHANGED <<diagram, tempHTML, panZoomInstance, live, marks, els, editor>>
             /\ inv'[i].restore = IdleInvocation.restore /\ inv'[i].called = {}
             /\ ~inv'[i].rejected]_vars

C17_Witness ==
    /\ lastDone = 2 /\ inv[2].outcome = "parseFalsy" /\ inv[2].afterMark
    /\ inv[1].outcome = "renderThrow"
    /\ marks # <<>>
    /\ els.pane.style # ForcedStyle /\ els.temp.style # ForcedStyle

\* C18: in every reachable state the editor carries at most one error-line
\* mark.
C18_AtMostOneMark == Len(marks) <= 1

C18_Witness ==
    /\ started = 2 /\ AllSettled
    /\ \A i \in 1..2 : inv[i].outcome \in {"parseThrow", "renderThrow"} /\ ~inv[i].rejected
    /\ inv[2].afterMark
    /\ Len(marks) = 1

\* The outcomes after which the invocation itself has set no mark.
UnmarkingOutcomes == EngineSuccessOutcomes \cup {"empty", "parseFalsy"}

\* C19 as stated: a mark left by a failed render is gone once the next render
\* attempt (one called with the mark in place and nothing else in flight, and
\* not overtaken by a later call) has ended, whatever its outcome.
C19_AsStated ==
    [][\A i \in Invocations :
          (Completes(i) /\ inv'[i].afterMark /\ started' = i
             /\ inv'[i].outcome \in UnmarkingOutcomes)
          => marks' = <<>>]_vars

\* C19: such an attempt clears the mark when the engine produced a diagram
\* (the marks are cleared right after the diagram is swapped in), and leaves
\* the marks as they are when it ends on an empty text or on a falsy
\* validation result; when it fails, the marks change only if the error's
\* line resolves.
C19_MarkClearedOnSuccessOnly ==
    [][\A i \in Invocations :
          (Completes(i) /\ inv'[i].afterMark /\ started' = i)
          => /\ inv'[i].outcome \in EngineSuccessOutcomes => marks' = <<>>
             /\ inv'[i].outcome \in {"empty", "parseFalsy"} => marks' = marks
             /\ inv'[i].outcome \in {"parseThrow", "renderThrow"}
                => \/ marks' = marks
                   \/ \E e \in EngineErrors :
                         /\ ErrorLine(e, FrontmatterLines(editor)) # <<>>
                         /\ marks' = MarksAfterCatch(e, editor, marks)]_vars

C19_Witness ==
    /\ started = 2 /\ lastDone = 2 /\ inv[2].afterMark
    /\ inv[2].outcome = "empty"
    /\ marks # <<>>

(***************************************************************************)
(* Properties of the save dialog's buttons (SpecCloud)                     *)
(***************************************************************************)

\* The handler of the Save New button ends in this step.
SaveEnds == cloud.save.pc = "calling" /\ cloud'.save.pc = "idle"

\* The handler of Update button g ends in this step.
UpdateEnds(g) == cloud.upd[g].pc = "calling" /\ cloud'.upd[g].pc = "idle"

\* C20: for the Save New and the Update button, a click with valid input
\* issues one cloud call and no step ever issues another (no retry); when the
\* call fails an error notification is shown, the dialog is left as it was and
\* the button ends enabled with its idle label; when it succeeds the button
\* ends enabled with its idle label too.
C20_OneCallAndButtonReleased ==
    [][/\ \A k \in {"save", "update"} :
            cloud'.calls[k] = cloud.calls[k]
                              + (IF cloud'.clicks[k] = cloud.clicks[k] + 1 THEN 1 ELSE 0)
       /\ SaveEnds
          => /\ ~cloud'.save.disabled /\ cloud'.save.label = "Save New"
             /\ cloud'.done.save = "failed"
                => cloud'.toast = Toast("saveFailed", TRUE) /\ cloud'.modal = cloud.modal
       /\ \A g \in 1..MaxOpens :
            UpdateEnds(g)
            => /\ ~cloud'.upd[g].disabled /\ cloud'.upd[g].label = "Update"
               /\ cloud'.done.update = "failed"
                  => cloud'.toast = Toast("updateFailed", TRUE) /\ cloud'.modal = cloud.modal
      ]_vars

C20_Witness ==
    /\ cloud.done.save = "failed" /\ cloud.done.update = "failed"
    /\ cloud.calls = [save |-> 1, update |-> 1]
    /\ cloud.modal
    /\ cloud.toast.isError
    /\ ~cloud.save.disabled /\ cloud.save.label = "Save New"
    /\ cloud.list # 0 /\ ~cloud.upd[cloud.list].disabled /\ cloud.upd[cloud.list].label = "Update"

(***************************************************************************)
(* Properties of the render identifier (SpecId)                            *)
(***************************************************************************)

\* C21: any two invocations that reach mermaid.render pass it different
\* identifiers, also when both compute the identifier in the same
\* millisecond, and the identifiers of successive render calls increase
\* strictly.
C21_IdentifiersDistinct ==
    \A i, j \in 1..Len(ids.order) :
        i < j => /\ ids.id[ids.order[i]] # ids.id[ids.order[j]]
                 /\ ids.id[ids.order[i]][2] < ids.id[ids.order[j]][2]

(***************************************************************************)
(* Properties of the metadata block's line count (SpecFm)                  *)
(***************************************************************************)

\* The lines after the first that are delimiter lines (1-based indexes).
ClosingLines(t) == {j \in 2..Len(t) : t[j] \in {"---", "--- "}}

\* The lines the delimited block occupies: up to and with the first closing
\* delimiter, 0 without an opening or without a closing delimiter.
BlockLines(t) ==
    IF t[1] \in {"---", "--- "} /\ ClosingLines(t) # {}
    THEN CHOOSE j \in ClosingLines(t) : \A k \in ClosingLines(t) : j <= k
    ELSE 0

\* C24: frontmatterLines is the number of lines of the delimited metadata
\* block: j + 1 when the first line is a delimiter and the next delimiter is
\* at 0-based index j, and 0 when the first line is no delimiter or the
\* opening delimiter is never closed.
C24_CountsTheBlock ==
    err.phase = "counted" => err.frontmatterLines = BlockLines(err.text)

(***************************************************************************)
(* Properties of completed renders (Spec)                                  *)
(***************************************************************************)

\* C25: renderDiagram never fails to its caller: whatever mermaid.parse and
\* mermaid.render do (truthy, falsy, an exception of any shape), the promise
\* of the invocation is never rejected, so the startup sequence that awaits
\* the initial render goes on.
C25_NeverRejects == \A i \in Invocations : ~inv[i].rejected

\* C27: once all invocations have completed, the editor carries an error
\* mark only if the render requested last failed.
C27_MarkOnlyIfLatestFailed ==
    (AllSettled /\ marks # <<>>) => inv[started].outcome \in FailureOutcomes

\* C29: once all invocations have completed, the inline styles of the
\* diagram pane and of the scratch container are what they were before the
\* first invocation started (the page's elements, in one of their starting
\* configurations).
C29_StylesAsBefore == AllSettled => els \in ElementConfigs

(***************************************************************************)
(* Properties of saveFile (SpecFile)                                       *)
(***************************************************************************)

\* C26: saveFile returns true exactly when the content was written (to the
\* file of the native picker or by a synthetic download), returns false
\* exactly when the user dismissed the picker, hands every other picker or
\* write error to its caller, and starts no synthetic download once the
\* picker was shown.
C26_ResultTellsWhatHappened ==
    file.pc = "done" =>
       /\ (file.result = "true") = (file.wrote \/ file.downloaded)
       /\ (file.result = "false") = file.dismissed
       /\ (file.result = "throws") = (~file.dismissed /\ ~file.wrote /\ ~file.downloaded)
       /\ file.pickerDone => ~file.downloaded

(***************************************************************************)
(* Properties of the marked line (SpecLine)                                *)
(***************************************************************************)

\* The engine counts the lines of the text it was given after that text's
\* metadata block: the line it reports, <<>> when the number is past the end.
EngineLine(x) ==
    LET k == x.reported + BlockLines(x.given)
    IN  IF k <= Len(x.given) THEN <<x.given[k]>> ELSE <<>>

\* C28: the line the error mark is put on is, in the editor's text at that
\* time, the very line the engine reported in the text it was given, also
\* when the text starts with blank lines and when the text changed while the
\* render was outstanding.
C28_MarksTheReportedLine ==
    (err.phase = "handled" /\ EngineLine(err) # <<>> /\ err.marks # <<>>) =>
        err.text[err.marks[1] + 1] = EngineLine(err)[1]

(***************************************************************************)
(* Properties of the cloud buttons during their calls (SpecCloud)          *)
(***************************************************************************)

\* The Save New button and every Update button ever built.
CloudButtons(c) == {c.save} \cup {c.upd[g] : g \in 1..MaxOpens}

\* C30: while a cloud call started from a button is outstanding that button
\* is disabled and no second call of the button is in flight, and a button
\* goes from disabled to enabled only in the step in which its outstanding
\* call settles.
C30_DisabledWhileCalling ==
    [][/\ \A b \in CloudButtons(cloud') : b.pending > 0 => b.disabled /\ b.pending = 1
       /\ (cloud.save.disabled /\ ~cloud'.save.disabled)
          => (cloud.save.pending = 1 /\ cloud'.save.pending = 0)
       /\ \A g \in 1..MaxOpens :
            (cloud.upd[g].disabled /\ ~cloud'.upd[g].disabled)
            => (cloud.upd[g].pending = 1 /\ cloud'.upd[g].pending = 0)
      ]_vars

\* A second save call is outstanding after the first one settled, together
\* with an update call, and both buttons are disabled.
C30_Witness ==
    /\ cloud.phase # "off"
    /\ cloud.done.save # "none"
    /\ cloud.save.pending = 1 /\ cloud.save.disabled
    /\ \E g \in 1..MaxOpens : cloud.upd[g].pending = 1 /\ cloud.upd[g].disabled

(***************************************************************************)
(* Properties of the avatar menu (SpecMenu)                                *)
(***************************************************************************)

\* C31: after any sequence of avatar-button clicks, outside clicks, Escape
\* presses and logouts the three attributes agree: the menu has the class
\* show exactly when aria-expanded of the button is "true", exactly when
\* aria-hidden of the menu is "false".
C31_AttributesAgree ==
    /\ menu.show = (menu.expanded = "true")
    /\ menu.show = (menu.hidden = "false")

(***************************************************************************)
(* Properties of showToast (SpecToastFair)                                 *)
(***************************************************************************)

\* The toast is hidden in this step.
ToastHidden == toast.show /\ ~toast'.show

\* C32: a toast stays visible for the full TOAST_DURATION after the latest
\* showToast call (the timer of an earlier call does not hide the newer
\* message before its own duration has elapsed), and every toast is
\* eventually hidden.
C32_ShownForItsDuration ==
    /\ [][ToastHidden => toast.now - toast.shownAt >= ToastDuration]_vars
    /\ (toast.show ~> ~toast.show)

(***************************************************************************)
(* Properties of the refused save (SpecCloud)                              *)
(***************************************************************************)

\* The Save New button is clicked in this step.
SavePressed == cloud'.presses = cloud.presses + 1

\* C33: a click on the Save New button with a title that is empty after
\* trimming issues no cloud call and changes nothing but the notification:
\* the dialog stays open, the button stays enabled with its label, the title
\* field keeps its value, and the error notification is shown.
C33_EmptyTitleOnlyNotifies ==
    [][(SavePressed /\ Trim(cloud.title) = <<>>)
       => /\ cloud' = [cloud EXCEPT !.presses = @ + 1, !.toast = Toast("needName", TRUE)]
          /\ cloud'.modal /\ ~cloud'.save.disabled /\ cloud'.save.label = "Save New"
          /\ cloud'.calls = cloud.calls
      ]_vars

\* A click with a title of one space was refused: no call, the dialog open,
\* the space still in the field.
C33_Witness ==
    /\ cloud.phase # "off"
    /\ cloud.presses = 1
    /\ cloud.title = <<" ">>
    /\ cloud.toast = Toast("needName", TRUE)
    /\ cloud.modal
    /\ cloud.calls.save = 0
    /\ ~cloud.save.disabled
====
